---- MODULE Spec2Model ----
(***************************************************************************)
(* A model of the study-tree service (src/app/study_service.py):           *)
(*   call_with_retry    the retry/backoff wrapper                          *)
(*   get_subtopics      the subtopic generator                             *)
(*   generate_questions the question generator                             *)
(*   create_study_tree  the orchestrator and its worker pool               *)
(* Each part has its own specification over the shared variables; a        *)
(* specification leaves the variables of the other parts unchanged.        *)
(***************************************************************************)
EXTENDS Integers, Sequences, FiniteSets, TLC

VARIABLES
    rc,        \* call_with_retry: the state of one call (its locals)
    script,    \* call_with_retry: what func does on its 1st, 2nd, ... invocation
    gs,        \* get_subtopics: the state of one call
    gq,        \* generate_questions: the state of one call
    ct         \* create_study_tree: the state of one request and of its pool

retryVars == <<rc, script>>
vars == <<rc, script, gs, gq, ct>>

(***************************************************************************)
(* Bounds of the model.                                                    *)
(***************************************************************************)
MaxRetriesArg == 3
MaxListLen == 10
MaxQuestions == 2
MaxTreeSubs == 7

(***************************************************************************)
(* call_with_retry (study_service.py:18-100)                               *)
(***************************************************************************)

\* The retry-after hint of a rate-limit error's text, as the regular
\* expression 'retry in ([\d.]+)s?' sees it: absent, present and a number
\* float() accepts, or present and rejected by float() (such as "1.2.3").
NoHint == [present |-> FALSE, valid |-> TRUE, secs |-> 0]
Hint(s) == [present |-> TRUE, valid |-> TRUE, secs |-> s]
BadHint == [present |-> TRUE, valid |-> FALSE, secs |-> 0]

HintSecs == {5}
Hints == {NoHint, BadHint} \cup {Hint(s) : s \in HintSecs}

\* What one invocation of func does: return a value, raise ResourceExhausted
\* (with a hint), or raise another exception.
NoValue == "None"
Values == {"resp_a", "resp_b"}
Returns(v) == [kind |-> "ok", hint |-> NoHint, val |-> v]
RateLimited(h) == [kind |-> "rl", hint |-> h, val |-> NoValue]
OtherError == [kind |-> "err", hint |-> NoHint, val |-> NoValue]
Outcomes ==
    {Returns(v) : v \in Values} \cup {RateLimited(h) : h \in Hints} \cup {OtherError}

BaseDelays == {1, 2}
MaxDelays == {3, 60}

RECURSIVE Pow2(_)
Pow2(n) == IF n = 0 THEN 1 ELSE 2 * Pow2(n - 1)

Min(a, b) == IF a <= b THEN a ELSE b

\* The locals of a call as it enters the loop. ncalls counts the invocations
\* of func, sleeps lists the delays slept, raised_from is the invocation whose
\* exception the call re-raised (0: none, or an exception of the wrapper).
RetryStart(mr, bd, md) ==
    [max_retries |-> mr, base_delay |-> bd, max_delay |-> md,
     attempt |-> 0, pc |-> "calling", ncalls |-> 0, sleeps |-> <<>>,
     result |-> NoValue, raised |-> "none", raised_from |-> 0]

\* (A delay that does not grow with the attempts.)
BackoffDelayFlat(c) == c.base_delay

\* Line 78: delay = base_delay * (2 ** attempt).
BackoffDelay(c) == c.base_delay * Pow2(c.attempt)

\* (The suggested delay taken without the buffer.)
HintDelayNoBuffer(h) == h.secs

\* Line 81: the suggested delay and one second of buffer.
HintDelay(h) == h.secs + 1

\* (The delay slept as computed, without the cap.)
RetryDelayUncapped(c, h) == IF h.present THEN HintDelay(h) ELSE BackoffDelay(c)

\* The delay slept: the hint's when there is one, the backoff when not, and
\* never more than max_delay (line 83).
RetryDelay(c, h) ==
    Min(IF h.present THEN HintDelay(h) ELSE BackoffDelay(c), c.max_delay)

\* func returned: the value is returned at once.
OnSuccess(c, v) ==
    [c EXCEPT !.ncalls = @ + 1, !.pc = "returned", !.result = v]

\* (One retry too many: <= in place of <.)
RetryRemainsOneMore(c) == c.attempt <= c.max_retries

\* A retry remains after a ResourceExhausted on attempt number c.attempt.
RetryRemains(c) == c.attempt < c.max_retries

\* func raised ResourceExhausted: float() of a hint it rejects raises ValueError
\* out of the handler; otherwise sleep if a retry remains, and re-raise if not.
OnRateLimitAs(c, h) ==
    IF RetryRemains(c)
    THEN [c EXCEPT !.ncalls = @ + 1, !.pc = "sleeping",
                   !.sleeps = Append(@, RetryDelay(c, h))]
    ELSE [c EXCEPT !.ncalls = @ + 1, !.pc = "raised",
                   !.raised = "ResourceExhausted", !.raised_from = c.ncalls + 1]

OnRateLimit(c, h) ==
    IF h.present /\ ~h.valid
    THEN [c EXCEPT !.ncalls = @ + 1, !.pc = "raised", !.raised = "ValueError"]
    ELSE OnRateLimitAs(c, h)

\* (The handler of ResourceExhausted applied to every exception.)
OnOtherErrorRetried(c) == OnRateLimitAs(c, NoHint)

\* func raised anything else: it is re-raised, with no retry.
OnOtherError(c) ==
    [c EXCEPT !.ncalls = @ + 1, !.pc = "raised",
              !.raised = "Exception", !.raised_from = c.ncalls + 1]

\* time.sleep(delay) returned: the loop goes to its next attempt.
AfterSleep(c) ==
    [c EXCEPT !.attempt = @ + 1, !.pc = "calling"]

RetryDone(c) == c.pc \in {"returned", "raised"}

\* The value of the variables a specification does not use.
Idle == [pc |-> "idle"]

InitRetry ==
    /\ \E mr \in 0..MaxRetriesArg, bd \in BaseDelays, md \in MaxDelays :
         /\ rc = RetryStart(mr, bd, md)
         /\ script \in [1..(mr + 1) -> Outcomes]
    /\ gs = Idle
    /\ gq = Idle
    /\ ct = Idle

RetryCallOk ==
    /\ rc.pc = "calling"
    /\ script[rc.ncalls + 1].kind = "ok"
    /\ rc' = OnSuccess(rc, script[rc.ncalls + 1].val)
    /\ UNCHANGED <<script, gs, gq, ct>>

RetryCallRateLimit ==
    /\ rc.pc = "calling"
    /\ script[rc.ncalls + 1].kind = "rl"
    /\ rc' = OnRateLimit(rc, script[rc.ncalls + 1].hint)
    /\ UNCHANGED <<script, gs, gq, ct>>

RetryCallError ==
    /\ rc.pc = "calling"
    /\ script[rc.ncalls + 1].kind = "err"
    /\ rc' = OnOtherError(rc)
    /\ UNCHANGED <<script, gs, gq, ct>>

RetryWake ==
    /\ rc.pc = "sleeping"
    /\ rc' = AfterSleep(rc)
    /\ UNCHANGED <<script, gs, gq, ct>>

NextRetry ==
    \/ RetryCallOk
    \/ RetryCallRateLimit
    \/ RetryCallError
    \/ RetryWake

SpecRetry == InitRetry /\ [][NextRetry]_vars

(***************************************************************************)
(* Response texts and json.loads.                                          *)
(*                                                                         *)
(* A text is a sequence of tokens: the code fence ```, the language tag    *)
(* json, whitespace, a prose word (no bracket in it), the JSON punctuation *)
(* [ ] { } , : and the JSON literals. A string literal carries its content *)
(* as a sequence of lower-case words, in which " " stands for leading or   *)
(* trailing whitespace.                                                    *)
(***************************************************************************)
Tok(t) == [t |-> t, w |-> <<>>, n |-> 0]
TStr(w) == [t |-> "str", w |-> w, n |-> 0]
TNum(t, n) == [t |-> t, w |-> <<>>, n |-> n]

Fence == Tok("fence")
JsonTag == Tok("tag")
Ws == Tok("ws")
Prose == Tok("prose")

\* The values json.loads returns: str, int, float, bool, None, list, dict.
\* A dict keeps its keys (strings) and its values in two parallel sequences.
JStr(w) == [k |-> "str", w |-> w, n |-> 0, items |-> <<>>, keys |-> <<>>]
JInt(n) == [k |-> "int", w |-> <<>>, n |-> n, items |-> <<>>, keys |-> <<>>]
JFloat(n) == [k |-> "float", w |-> <<>>, n |-> n, items |-> <<>>, keys |-> <<>>]
JBool(b) == [k |-> "bool", w |-> <<>>, n |-> IF b THEN 1 ELSE 0, items |-> <<>>, keys |-> <<>>]
JNull == [k |-> "null", w |-> <<>>, n |-> 0, items |-> <<>>, keys |-> <<>>]
JList(items) == [k |-> "list", w |-> <<>>, n |-> 0, items |-> items, keys |-> <<>>]
JDict(keys, items) == [k |-> "dict", w |-> <<>>, n |-> 0, items |-> items, keys |-> keys]

\* The text of a value, as a model writes it (json.dumps without spaces).
RECURSIVE Render(_), RenderElems(_), RenderMembers(_, _)
Render(v) ==
    CASE v.k = "str" -> <<TStr(v.w)>>
      [] v.k = "int" -> <<TNum("int", v.n)>>
      [] v.k = "float" -> <<TNum("float", v.n)>>
      [] v.k = "bool" -> <<Tok(IF v.n = 1 THEN "true" ELSE "false")>>
      [] v.k = "null" -> <<Tok("null")>>
      [] v.k = "list" -> <<Tok("[")>> \o RenderElems(v.items) \o <<Tok("]")>>
      [] v.k = "dict" -> <<Tok("{")>> \o RenderMembers(v.keys, v.items) \o <<Tok("}")>>

RenderElems(items) ==
    IF items = <<>> THEN <<>>
    ELSE IF Len(items) = 1 THEN Render(items[1])
    ELSE Render(items[1]) \o <<Tok(",")>> \o RenderElems(Tail(items))

RenderMembers(keys, items) ==
    IF keys = <<>> THEN <<>>
    ELSE LET m == <<TStr(keys[1]), Tok(":")>> \o Render(items[1])
         IN  IF Len(keys) = 1 THEN m
             ELSE m \o <<Tok(",")>> \o RenderMembers(Tail(keys), Tail(items))

\* json.loads: whitespace between tokens is skipped, one value is parsed, and
\* anything else (an empty text, prose, a fence, trailing data) is a
\* JSONDecodeError (ok = FALSE).
DropWs(text) == SelectSeq(text, LAMBDA x : x.t # "ws")

ParseFail == [ok |-> FALSE, v |-> JNull, next |-> 0]
Parsed(v, next) == [ok |-> TRUE, v |-> v, next |-> next]

RECURSIVE ParseValue(_, _), ParseElems(_, _, _), ParseMembers(_, _, _, _)
ParseValue(toks, i) ==
    IF i > Len(toks) THEN ParseFail
    ELSE LET x == toks[i]
         IN  CASE x.t = "str" -> Parsed(JStr(x.w), i + 1)
               [] x.t = "int" -> Parsed(JInt(x.n), i + 1)
               [] x.t = "float" -> Parsed(JFloat(x.n), i + 1)
               [] x.t = "true" -> Parsed(JBool(TRUE), i + 1)
               [] x.t = "false" -> Parsed(JBool(FALSE), i + 1)
               [] x.t = "null" -> Parsed(JNull, i + 1)
               [] x.t = "[" ->
                    IF i + 1 <= Len(toks) /\ toks[i + 1].t = "]"
                    THEN Parsed(JList(<<>>), i + 2)
                    ELSE ParseElems(toks, i + 1, <<>>)
               [] x.t = "{" ->
                    IF i + 1 <= Len(toks) /\ toks[i + 1].t = "}"
                    THEN Parsed(JDict(<<>>, <<>>), i + 2)
                    ELSE ParseMembers(toks, i + 1, <<>>, <<>>)
               [] OTHER -> ParseFail

ParseElems(toks, i, acc) ==
    LET r == ParseValue(toks, i)
    IN  IF ~r.ok \/ r.next > Len(toks) THEN ParseFail
        ELSE IF toks[r.next].t = "," THEN ParseElems(toks, r.next + 1, Append(acc, r.v))
        ELSE IF toks[r.next].t = "]" THEN Parsed(JList(Append(acc, r.v)), r.next + 1)
        ELSE ParseFail

ParseMembers(toks, i, keys, items) ==
    IF i + 1 > Len(toks) \/ toks[i].t # "str" \/ toks[i + 1].t # ":" THEN ParseFail
    ELSE LET r == ParseValue(toks, i + 2)
         IN  IF ~r.ok \/ r.next > Len(toks) THEN ParseFail
             ELSE IF toks[r.next].t = ","
                  THEN ParseMembers(toks, r.next + 1, Append(keys, toks[i].w), Append(items, r.v))
             ELSE IF toks[r.next].t = "}"
                  THEN Parsed(JDict(Append(keys, toks[i].w), Append(items, r.v)), r.next + 1)
             ELSE ParseFail

JsonLoads(text) ==
    LET toks == DropWs(text)
        r == ParseValue(toks, 1)
    IN  IF r.ok /\ r.next = Len(toks) + 1
        THEN [ok |-> TRUE, v |-> r.v]
        ELSE [ok |-> FALSE, v |-> JNull]

\* str.strip() of a text, str.startswith, str.split('```'), and the slice from
\* the first "[" to the last "]" (what re.search(r'\[.*\]', text, re.DOTALL)
\* matches, and what text[text.find('['):text.rfind(']')+1] is).
RECURSIVE StripLeft(_), StripRight(_)
StripLeft(text) ==
    IF text # <<>> /\ text[1].t = "ws" THEN StripLeft(Tail(text)) ELSE text
StripRight(text) ==
    IF text # <<>> /\ text[Len(text)].t = "ws"
    THEN StripRight(SubSeq(text, 1, Len(text) - 1))
    ELSE text
Strip(text) == StripRight(StripLeft(text))

StartsWith(text, t) == text # <<>> /\ text[1].t = t

\* str.split('```'): the pieces before, between and after the fences (part
\* is what precedes the text in its first piece). The split also cuts a
\* string literal that has ``` in its content (at most once, the word FenceWord):
\* its opening half ends one piece and its closing half starts the next,
\* each as a token that is no JSON.
FenceWord == "<fence>"
HasFence(tok) ==
    \/ tok.t = "fence"
    \/ tok.t = "str" /\ \E j \in 1..Len(tok.w) : tok.w[j] = FenceWord
FenceAt(tok) == CHOOSE j \in 1..Len(tok.w) : tok.w[j] = FenceWord
StrPart(w) == [t |-> "strpart", w |-> w, n |-> 0]
BeforeFence(tok) ==
    IF tok.t = "str" THEN <<StrPart(SubSeq(tok.w, 1, FenceAt(tok) - 1))>> ELSE <<>>
AfterFence(tok) ==
    IF tok.t = "str" THEN <<StrPart(SubSeq(tok.w, FenceAt(tok) + 1, Len(tok.w)))>> ELSE <<>>

SplitFence(text, part) ==
    LET F == {i \in 1..Len(text) : HasFence(text[i])}
        n == Cardinality(F)
        At(k) == IF k = 0 THEN 0
                 ELSE IF k = n + 1 THEN Len(text) + 1
                 ELSE CHOOSE p \in F : Cardinality({q \in F : q < p}) = k - 1
    IN  [k \in 1..(n + 1) |->
            (IF k = 1 THEN part ELSE AfterFence(text[At(k - 1)]))
                \o SubSeq(text, At(k - 1) + 1, At(k) - 1)
                \o (IF k = n + 1 THEN <<>> ELSE BeforeFence(text[At(k)]))]

Positions(text, t) == {i \in 1..Len(text) : text[i].t = t}
SetMin(S) == CHOOSE x \in S : \A y \in S : x <= y
SetMax(S) == CHOOSE x \in S : \A y \in S : x >= y

\* re.search(r'\[.*\]', text, re.DOTALL): greedy, from the first "[" that has
\* a "]" after it to the last "]".
HasBracketSpan(text) ==
    /\ Positions(text, "[") # {}
    /\ Positions(text, "]") # {}
    /\ SetMin(Positions(text, "[")) < SetMax(Positions(text, "]"))
BracketSpan(text) ==
    SubSeq(text, SetMin(Positions(text, "[")), SetMax(Positions(text, "]")))

(***************************************************************************)
(* get_subtopics (study_service.py:103-237)                                *)
(*                                                                         *)
(* A Python string (a subtopic, the topic) is the sequence of its          *)
(* whitespace-separated words, lower-cased, with " " for whitespace at its *)
(* ends; str.lower() is the identity on it.                                *)
(***************************************************************************)
TargetCount == 9
RetryMaxRetries == 2
DefaultMaxRetries == 3
DefaultBaseDelay == 1
DefaultMaxDelay == 60

Range(f) == {f[i] : i \in DOMAIN f}
Take(seq, n) == SubSeq(seq, 1, Min(n, Len(seq)))

\* str(st) of a decoded element.
StrOf(v) ==
    CASE v.k = "str" -> v.w
      [] v.k = "int" -> <<"<int>">>
      [] v.k = "float" -> <<"<float>">>
      [] v.k = "bool" -> <<"<bool>">>
      [] v.k = "null" -> <<"none">>
      [] v.k = "list" -> <<"<list>">>
      [] v.k = "dict" -> <<"<dict>">>

StrSeq(items) == [i \in 1..Len(items) |-> StrOf(items[i])]

\* str.strip() and str.split() of a string.
RECURSIVE StripStrLeft(_), StripStrRight(_)
StripStrLeft(str) ==
    IF str # <<>> /\ str[1] = " " THEN StripStrLeft(Tail(str)) ELSE str
StripStrRight(str) ==
    IF str # <<>> /\ str[Len(str)] = " "
    THEN StripStrRight(SubSeq(str, 1, Len(str) - 1))
    ELSE str
StripStr(str) == StripStrRight(StripStrLeft(str))
SplitWords(str) == SelectSeq(str, LAMBDA x : x # " ")

\* generic_patterns: the words each \b...\b pattern matches. The sixth,
\* 'general concepts?', spans two words.
PatternWords(p) ==
    CASE p = 1 -> {"basics", "basic"}
      [] p = 2 -> {"advanced"}
      [] p = 3 -> {"introduction", "intro"}
      [] p = 4 -> {"overview"}
      [] p = 5 -> {"applications", "application"}
      [] p = 6 -> {}
GenericPatterns == 1..6

\* re.search(pattern, st_lower) on the whole string.
PatternInString(p, words) ==
    IF p = 6
    THEN \E i \in 1..(Len(words) - 1) :
            words[i] = "general" /\ words[i + 1] \in {"concept", "concepts"}
    ELSE \E i \in 1..Len(words) : words[i] \in PatternWords(p)

\* re.search(pattern, word) on one word of st_lower.split().
PatternInWord(p, word) == word \in PatternWords(p)

GenericWordLimit == 3

IsGenericByPattern(st) ==
    LET words == SplitWords(st)
    IN  \E p \in GenericPatterns :
            /\ PatternInString(p, words)
            /\ Len(words) <= GenericWordLimit
            /\ \E i \in 1..Len(words) : PatternInWord(p, words[i])

\* A word written without a space after the topic ("s1basics") is the topic
\* followed by the rest of the word: st_lower.startswith(topic_lower) holds.
Glued == [whole |-> "s1basics", head |-> "s1", rest |-> "basics"]
Pieces(word) == IF word = Glued.whole THEN <<Glued.head, Glued.rest>> ELSE <<word>>

IsWordPrefix(a, b) == Len(a) <= Len(b) /\ SubSeq(b, 1, Len(a)) = a

GenericSuffixes ==
    {"basics", "basic", "advanced", "introduction", "overview", "applications"}

\* st_lower.startswith(topic_lower) with at most 3 words, and the rest of the
\* string, stripped, one of the generic suffixes.
IsGenericByTopic(st, topic) ==
    LET words == SplitWords(st)
        twords == SplitWords(topic)
    IN  /\ Len(words) <= GenericWordLimit
        /\ \/ /\ IsWordPrefix(twords, words)
              /\ Len(words) = Len(twords) + 1
              /\ words[Len(words)] \in GenericSuffixes
           \/ /\ Len(twords) >= 1
              /\ Len(words) = Len(twords)
              /\ SubSeq(words, 1, Len(words) - 1) = SubSeq(twords, 1, Len(twords) - 1)
              /\ Pieces(words[Len(words)]) = <<twords[Len(twords)], Glued.rest>>
              /\ Glued.rest \in GenericSuffixes

IsGeneric(st, topic) == IsGenericByPattern(st) \/ IsGenericByTopic(st, topic)

\* filtered: str(st).strip() of every element that is not generic.
RECURSIVE FilterGeneric(_, _)
FilterGeneric(items, topic) ==
    IF items = <<>> THEN <<>>
    ELSE LET st == StripStr(StrOf(items[1]))
         IN  (IF IsGeneric(st, topic) THEN <<>> ELSE <<st>>)
                 \o FilterGeneric(Tail(items), topic)

\* (Only what passed the filter, with nothing filled in.)
BackfillNothing(filtered, items) == filtered

\* Lines 206-209: the filtered items, then the original items whose stripped
\* text is not among them, up to 9 in all.
Backfill(filtered, items) ==
    LET remaining == SelectSeq(StrSeq(items),
                               LAMBDA st : StripStr(st) \notin Range(filtered))
    IN  Take(filtered \o remaining, TargetCount)

\* (The original list handed back whole.)
OriginalListWhole(items) == StrSeq(items)

\* Line 212: the original list as strings, cut to 9.
OriginalList(items) == Take(StrSeq(items), TargetCount)

\* The three ways a decoded, non-empty list becomes the result.
SelectSubtopics(items, topic) ==
    LET filtered == FilterGeneric(items, topic)
    IN  IF Len(filtered) >= TargetCount THEN Take(filtered, TargetCount)
        ELSE IF Len(filtered) > 0 THEN Backfill(filtered, items)
        ELSE OriginalList(items)

\* The first part between fences that starts with json or with "[".
RECURSIVE SubFencePick(_, _)
SubFencePick(parts, text) ==
    IF parts = <<>> THEN text
    ELSE LET part == Strip(parts[1])
         IN  IF StartsWith(part, "tag") THEN Strip(Tail(part))
             ELSE IF StartsWith(part, "[") THEN part
             ELSE SubFencePick(Tail(parts), text)

\* The fence step of lines 130-140 on a text that begins with a fence: the
\* text stays as it is when no part is picked.
SubFenceStep(text) == SubFencePick(SplitFence(text, <<>>), text)

\* The text handed to json.loads on the main path (lines 127-155).
SubNormalize(raw) ==
    LET text0 == Strip(raw)
        text1 == IF StartsWith(text0, "fence") THEN SubFenceStep(text0)
                 ELSE IF HasBracketSpan(text0) THEN BracketSpan(text0)
                 ELSE text0
        text2 == Strip(text1)
    IN  IF ~StartsWith(text2, "[") /\ HasBracketSpan(text2)
        THEN BracketSpan(text2)
        ELSE text2

\* The main path from the response text on: a result, or a JSONDecodeError.
SubMainParse(raw, topic) ==
    LET d == JsonLoads(SubNormalize(raw))
    IN  IF ~d.ok THEN [decoded |-> FALSE, result |-> <<>>]
        ELSE IF d.v.k = "list" /\ Len(d.v.items) > 0
             THEN [decoded |-> TRUE, result |-> SelectSubtopics(d.v.items, topic)]
        ELSE [decoded |-> TRUE, result |-> <<>>]

\* (The simplified retry held to the five subtopics its prompt asks for.)
SubRetryParseFive(raw) ==
    LET text0 == Strip(raw)
        text1 == IF HasBracketSpan(text0) THEN BracketSpan(text0) ELSE text0
        d == JsonLoads(text1)
    IN  IF d.ok /\ d.v.k = "list" /\ Len(d.v.items) > 0
        THEN Take(StrSeq(d.v.items), 5)
        ELSE <<>>

\* The simplified retry from its response text on (lines 223-233): every
\* failure ends in the empty list.
SubRetryParse(raw) ==
    LET text0 == Strip(raw)
        text1 == IF HasBracketSpan(text0) THEN BracketSpan(text0) ELSE text0
        d == JsonLoads(text1)
    IN  IF d.ok /\ d.v.k = "list" /\ Len(d.v.items) > 0
        THEN StrSeq(d.v.items)
        ELSE <<>>

(***************************************************************************)
(* The response texts the model is given.                                  *)
(***************************************************************************)
WrapStyles ==
    {"bare", "ws_pad", "fence_json", "fence", "fence_other",
     "prose_pre", "prose_both", "prose_fence"}

\* A payload as a model may send it: alone, in a fence (with the tag json,
\* with no tag, with another tag), after or between prose.
Wrap(style, body) ==
    CASE style = "bare" -> body
      [] style = "ws_pad" -> <<Ws>> \o body \o <<Ws>>
      [] style = "fence_json" -> <<Fence, JsonTag, Ws>> \o body \o <<Ws, Fence>>
      [] style = "fence" -> <<Fence, Ws>> \o body \o <<Ws, Fence>>
      [] style = "fence_other" -> <<Fence, Prose, Ws>> \o body \o <<Ws, Fence>>
      [] style = "prose_pre" -> <<Prose, Ws>> \o body
      [] style = "prose_both" -> <<Prose, Ws>> \o body \o <<Ws, Prose>>
      [] style = "prose_fence" -> <<Prose, Ws, Fence, JsonTag, Ws>> \o body \o <<Ws, Fence>>

\* Texts that hold no JSON at all.
OddTexts == {<<>>, <<Prose>>, <<Fence, JsonTag, Ws, Fence>>, <<Tok("]"), Prose, Tok("[")>>}

Topics == {<<"s1">>, <<"deep", "nets">>}

NameDigits ==
    <<"1", "2", "3", "4", "5", "6", "7", "8", "9", "10", "11", "12", "13", "14", "15", "16">>
SpecificName(i) == JStr(<<"part", NameDigits[i]>>)
GenericName(i) == JStr(<<NameDigits[i], "basics">>)

\* A list of n subtopics of which g are generic, the generic ones first or last.
PatternList(n, g, genericFirst) ==
    JList([i \in 1..n |->
        IF (genericFirst /\ i <= g) \/ (~genericFirst /\ i > n - g)
        THEN GenericName(i) ELSE SpecificName(i)])

PatternPayloads ==
    {PatternList(n, g, b) : n \in 1..MaxListLen, g \in 0..MaxListLen, b \in BOOLEAN}

CoreSubPayloads ==
    {JList(<<>>),
     JList(<<JStr(<<"s1">>), JStr(<<"s1", "basics">>)>>),
     JList(<<JStr(<<"s1", "basics">>), JStr(<<"calvin", "cycle">>), JStr(<<"s1basics">>)>>),
     JList(<<JStr(<<"calvin", "cycle">>), JStr(<<"calvin", "cycle">>), JStr(<<"intro">>)>>),
     JList(<<JStr(<<" ", "light", "reactions", " ">>), JStr(<<"overview">>), JInt(7)>>),
     JList(<<JStr(<<"general", "concepts">>), JStr(<<"deep", "nets", "overview">>)>>),
     JList(<<JStr(<<"basics">>), JStr(<<"advanced">>)>>),
     JList(<<JStr(<<"use", FenceWord, "fences">>), JStr(<<"headings">>)>>),
     JList(<<JList(<<JStr(<<"nested">>)>>), JNull>>),
     JStr(<<"calvin", "cycle">>),
     JInt(7),
     JDict(<<<<"topics">>>>, <<JStr(<<"calvin", "cycle">>)>>),
     JDict(<<<<"topics">>>>, <<JList(<<JStr(<<"calvin", "cycle">>)>>)>>)}

SubTexts ==
    {Wrap(st, Render(v)) : st \in WrapStyles, v \in CoreSubPayloads}
        \cup {Render(v) : v \in PatternPayloads}
        \cup OddTexts

(***************************************************************************)
(* get_subtopics as a state machine: the main call_with_retry, then either *)
(* the return or the simplified retry's call_with_retry, then the return.  *)
(***************************************************************************)
SubStart(topic) ==
    [pc |-> "main_call", topic |-> topic,
     rc |-> RetryStart(DefaultMaxRetries, DefaultBaseDelay, DefaultMaxDelay),
     main_calls |-> 0, retry_calls |-> 0, retry_prompts |-> 0,
     main_text |-> <<>>, retry_text |-> <<>>,
     main_raised |-> "none", retry_raised |-> "none",
     raised |-> FALSE, result |-> <<>>]

SubDone(g, result) ==
    [g EXCEPT !.pc = "done", !.result = result, !.rc = Idle]

\* (The simplified retry issued after a failed call as well.)
SubOnExceptionRetry(g) ==
    [g EXCEPT !.pc = "retry_call", !.retry_prompts = @ + 1,
              !.rc = RetryStart(RetryMaxRetries, DefaultBaseDelay, DefaultMaxDelay)]

\* The except of line 234: whatever else was raised, the result is [].
SubOnException(g) == SubDone(g, <<>>)

\* The main call_with_retry ended (returned c.result, or raised).
SubAfterMain(g, c) ==
    LET g1 == [g EXCEPT !.main_calls = c.ncalls]
    IN  IF c.pc = "raised" THEN SubOnException([g1 EXCEPT !.main_raised = c.raised])
        ELSE LET p == SubMainParse(c.result, g.topic)
                 g2 == [g1 EXCEPT !.main_text = c.result]
             IN  IF p.decoded THEN SubDone(g2, p.result)
                 ELSE [g2 EXCEPT !.pc = "retry_call", !.retry_prompts = @ + 1,
                                 !.rc = RetryStart(RetryMaxRetries, DefaultBaseDelay,
                                                   DefaultMaxDelay)]

\* The retry's call_with_retry ended.
SubAfterRetry(g, c) ==
    LET g1 == [g EXCEPT !.retry_calls = c.ncalls]
    IN  IF c.pc = "raised" THEN SubDone([g1 EXCEPT !.retry_raised = c.raised], <<>>)
        ELSE SubDone([g1 EXCEPT !.retry_text = c.result], SubRetryParse(c.result))

\* One step of the call_with_retry in progress took its locals to c.
SubAfterStep(g, c) ==
    IF ~RetryDone(c) THEN [g EXCEPT !.rc = c]
    ELSE IF g.pc = "main_call" THEN SubAfterMain(g, c)
    ELSE SubAfterRetry(g, c)

SubCalling == gs.pc \in {"main_call", "retry_call"} /\ gs.rc.pc = "calling"

InitSubtopics ==
    /\ \E topic \in Topics : gs = SubStart(topic)
    /\ rc = Idle
    /\ script = <<>>
    /\ gq = Idle
    /\ ct = Idle

SubFuncReturns ==
    /\ SubCalling
    /\ \E text \in SubTexts : gs' = SubAfterStep(gs, OnSuccess(gs.rc, text))
    /\ UNCHANGED <<rc, script, gq, ct>>

SubFuncRateLimited ==
    /\ SubCalling
    /\ \E h \in Hints : gs' = SubAfterStep(gs, OnRateLimit(gs.rc, h))
    /\ UNCHANGED <<rc, script, gq, ct>>

SubFuncError ==
    /\ SubCalling
    /\ gs' = SubAfterStep(gs, OnOtherError(gs.rc))
    /\ UNCHANGED <<rc, script, gq, ct>>

SubWake ==
    /\ gs.pc \in {"main_call", "retry_call"}
    /\ gs.rc.pc = "sleeping"
    /\ gs' = [gs EXCEPT !.rc = AfterSleep(gs.rc)]
    /\ UNCHANGED <<rc, script, gq, ct>>

NextSubtopics ==
    \/ SubFuncReturns
    \/ SubFuncRateLimited
    \/ SubFuncError
    \/ SubWake

SpecSubtopics == InitSubtopics /\ [][NextSubtopics]_vars

(***************************************************************************)
(* generate_questions (study_service.py:240-307)                           *)
(***************************************************************************)
KeyIndex(d, key) == {i \in 1..Len(d.keys) : d.keys[i] = key}
HasKey(d, key) == KeyIndex(d, key) # {}
GetKey(d, key) == d.items[CHOOSE i \in KeyIndex(d, key) : TRUE]
\* q[key] = v: in place when the key is there, appended when it is not.
SetKey(d, key, v) ==
    IF HasKey(d, key)
    THEN [d EXCEPT !.items[CHOOSE i \in KeyIndex(d, key) : TRUE] = v]
    ELSE [d EXCEPT !.keys = Append(@, key), !.items = Append(@, v)]

KQuestion == <<"question">>
KOptions == <<"options">>
KCorrectIndex == <<"correct_index">>
KExplanation == <<"explanation">>
DefaultExplanation == JStr(<<"this", "is", "the", "correct", "answer.">>)

\* len(): of a list, a dict and a str; a TypeError for the other values.
RECURSIVE CharLen(_)
CharLen(w) ==
    IF w = <<>> THEN 0
    ELSE Len(w[1]) + (IF Len(w) > 1 THEN 1 ELSE 0) + CharLen(Tail(w))
HasLen(v) == v.k \in {"list", "dict", "str"}
LenOf(v) ==
    CASE v.k = "list" -> Len(v.items)
      [] v.k = "dict" -> Len(v.keys)
      [] v.k = "str" -> CharLen(v.w)

\* isinstance(x, int): bool is a subclass of int.
IsInt(v) == v.k \in {"int", "bool"}

\* The element is kept: a dict with 'question' and 'options'.
IsQuestion(q) == q.k = "dict" /\ HasKey(q, KQuestion) /\ HasKey(q, KOptions)

\* Lines 295-296: a missing or non-integer correct_index becomes 0.
WithIntIndex(q) ==
    IF ~HasKey(q, KCorrectIndex) \/ ~IsInt(GetKey(q, KCorrectIndex))
    THEN SetKey(q, KCorrectIndex, JInt(0))
    ELSE q

\* The comparison of line 297 (taken once len() has not raised).
IndexOutOfRange(q) ==
    \/ GetKey(q, KCorrectIndex).n < 0
    \/ GetKey(q, KCorrectIndex).n >= LenOf(GetKey(q, KOptions))

\* Lines 297-298: an index outside [0, len(options)) becomes 0.
WithIndexInRange(q) ==
    IF IndexOutOfRange(q) THEN SetKey(q, KCorrectIndex, JInt(0)) ELSE q

\* Lines 299-300.
WithExplanation(q) ==
    IF ~HasKey(q, KExplanation) THEN SetKey(q, KExplanation, DefaultExplanation) ELSE q

RepairQuestion(q) == WithExplanation(WithIndexInRange(WithIntIndex(q)))

\* len(q.get('options', [])) raises TypeError; it is not called when the index
\* is negative, as the "or" of line 297 is then decided by its left side.
RepairRaises(q) ==
    /\ IsQuestion(q)
    /\ GetKey(WithIntIndex(q), KCorrectIndex).n >= 0
    /\ ~HasLen(GetKey(q, KOptions))

RECURSIVE ValidateQuestions(_)
ValidateQuestions(items) ==
    IF items = <<>> THEN <<>>
    ELSE (IF IsQuestion(items[1]) THEN <<RepairQuestion(items[1])>> ELSE <<>>)
             \o ValidateQuestions(Tail(items))

\* The first part between fences that starts with json, "{" or "[".
RECURSIVE QFencePick(_, _)
QFencePick(parts, text) ==
    IF parts = <<>> THEN text
    ELSE LET part == Strip(parts[1])
         IN  IF StartsWith(part, "tag") THEN Strip(Tail(part))
             ELSE IF StartsWith(part, "{") \/ StartsWith(part, "[") THEN part
             ELSE QFencePick(Tail(parts), text)

\* The fence step of lines 275-283 on a text that begins with a fence.
QFenceStep(text) == QFencePick(SplitFence(text, <<>>), text)

\* The text handed to json.loads (lines 272-285).
QNormalize(raw) ==
    LET text0 == Strip(raw)
    IN  Strip(IF StartsWith(text0, "fence") THEN QFenceStep(text0) ELSE text0)

\* From the response text on: the validated questions, or the empty list when
\* json.loads or len() raises (the except of line 304) or the JSON is no list.
QParse(raw) ==
    LET d == JsonLoads(QNormalize(raw))
    IN  IF ~d.ok THEN [raised |-> TRUE, result |-> <<>>]
        ELSE IF d.v.k # "list" THEN [raised |-> FALSE, result |-> <<>>]
        ELSE IF \E i \in 1..Len(d.v.items) : RepairRaises(d.v.items[i])
             THEN [raised |-> TRUE, result |-> <<>>]
        ELSE [raised |-> FALSE, result |-> ValidateQuestions(d.v.items)]

\* The inputs: the elements of a decoded array.
FourOptions == JList(<<JStr(<<"a">>), JStr(<<"b">>), JStr(<<"c">>), JStr(<<"d">>)>>)
Question(opts) == JDict(<<KQuestion, KOptions>>, <<JStr(<<"q">>), opts>>)
QuestionWith(opts, ci) ==
    JDict(<<KQuestion, KOptions, KCorrectIndex>>, <<JStr(<<"q">>), opts, ci>>)
FullQuestion ==
    JDict(<<KQuestion, KOptions, KCorrectIndex, KExplanation>>,
          <<JStr(<<"q">>), FourOptions, JInt(2), JStr(<<"because">>)>>)

QElems ==
    {FullQuestion, Question(FourOptions), Question(JList(<<>>)),
     Question(JInt(4)), Question(JNull), Question(JStr(<<"abcd">>)),
     Question(JDict(<<<<"a">>>>, <<JStr(<<"x">>)>>)),
     JDict(<<KQuestion>>, <<JStr(<<"q">>)>>),
     JDict(<<KOptions>>, <<FourOptions>>),
     JStr(<<"q">>), JInt(1)}
        \cup {QuestionWith(FourOptions, ci) :
                ci \in {JInt(-1), JInt(0), JInt(3), JInt(4), JInt(7), JStr(<<"1">>),
                        JFloat(1), JBool(TRUE), JNull}}
        \cup {QuestionWith(JList(<<>>), JInt(0)), QuestionWith(JList(<<JStr(<<"a">>)>>), JBool(TRUE)),
              QuestionWith(JInt(4), JInt(-1))}

QShortPayloads ==
    {JList(<<>>), FullQuestion, JStr(<<"q">>), JNull} \cup {JList(<<e>>) : e \in QElems}
\* Elements of the longer lists: kept, repaired and dropped ones mixed.
QLongElems ==
    {FullQuestion, Question(FourOptions), Question(JList(<<>>)), Question(JInt(4)),
     JDict(<<KQuestion>>, <<JStr(<<"q">>)>>), JInt(1),
     QuestionWith(FourOptions, JInt(7)), QuestionWith(FourOptions, JStr(<<"1">>))}
QLongPayloads ==
    UNION {{JList(f) : f \in [1..n -> QLongElems]} : n \in 2..MaxQuestions}

QTexts ==
    {Wrap(st, Render(v)) : st \in WrapStyles, v \in QShortPayloads}
        \cup {Wrap(st, Render(v)) : st \in {"bare", "fence_json"}, v \in QLongPayloads}
        \cup OddTexts

\* generate_questions as a state machine: its call_with_retry, then the return.
QStart ==
    [pc |-> "call",
     rc |-> RetryStart(DefaultMaxRetries, DefaultBaseDelay, DefaultMaxDelay),
     calls |-> 0, call_raised |-> FALSE, parse_raised |-> FALSE,
     text |-> <<>>, raised |-> FALSE, result |-> <<>>]

\* (The exception is let through instead of being turned into [].)
QOnExceptionRaised(g) == [g EXCEPT !.pc = "done", !.raised = TRUE, !.rc = Idle]

\* The except of line 304 returns [] for whatever was raised.
QOnException(g) == [g EXCEPT !.pc = "done", !.result = <<>>, !.rc = Idle]

QAfterCall(g, c) ==
    LET g1 == [g EXCEPT !.calls = c.ncalls]
    IN  IF c.pc = "raised" THEN QOnException([g1 EXCEPT !.call_raised = TRUE])
        ELSE LET p == QParse(c.result)
                 g2 == [g1 EXCEPT !.text = c.result]
             IN  IF p.raised THEN QOnException([g2 EXCEPT !.parse_raised = TRUE])
                 ELSE [g2 EXCEPT !.pc = "done", !.result = p.result, !.rc = Idle]

QAfterStep(g, c) == IF ~RetryDone(c) THEN [g EXCEPT !.rc = c] ELSE QAfterCall(g, c)

QCalling == gq.pc = "call" /\ gq.rc.pc = "calling"

InitQuestions ==
    /\ gq = QStart
    /\ rc = Idle
    /\ script = <<>>
    /\ gs = Idle
    /\ ct = Idle

QFuncReturns ==
    /\ QCalling
    /\ \E text \in QTexts : gq' = QAfterStep(gq, OnSuccess(gq.rc, text))
    /\ UNCHANGED <<rc, script, gs, ct>>

QFuncRateLimited ==
    /\ QCalling
    /\ \E h \in Hints : gq' = QAfterStep(gq, OnRateLimit(gq.rc, h))
    /\ UNCHANGED <<rc, script, gs, ct>>

QFuncError ==
    /\ QCalling
    /\ gq' = QAfterStep(gq, OnOtherError(gq.rc))
    /\ UNCHANGED <<rc, script, gs, ct>>

QWake ==
    /\ gq.pc = "call"
    /\ gq.rc.pc = "sleeping"
    /\ gq' = [gq EXCEPT !.rc = AfterSleep(gq.rc)]
    /\ UNCHANGED <<rc, script, gs, ct>>

NextQuestions ==
    \/ QFuncReturns
    \/ QFuncRateLimited
    \/ QFuncError
    \/ QWake

SpecQuestions == InitQuestions /\ [][NextQuestions]_vars

(***************************************************************************)
(* create_study_tree (study_service.py:310-415)                            *)
(*                                                                         *)
(* The main thread calls get_subtopics, submits one generate_questions per *)
(* subtopic to a ThreadPoolExecutor(max_workers=6), takes the futures from *)
(* as_completed and writes each entry at its original index. A worker      *)
(* thread takes the oldest queued work item and runs it to its end.        *)
(***************************************************************************)
MaxWorkers == 6

\* How a call_with_retry ended, as its caller sees it.
CallRaised == [raised |-> TRUE, text |-> <<>>]
CallReturned(text) == [raised |-> FALSE, text |-> text]

\* The result of get_subtopics when its main call ends as o1 and its retry
\* call, if issued, as o2.
GetSubtopics(topic, o1, o2) ==
    IF o1.raised THEN <<>>
    ELSE LET p == SubMainParse(o1.text, topic)
         IN  IF p.decoded THEN p.result
             ELSE IF o2.raised THEN <<>>
             ELSE SubRetryParse(o2.text)

\* The result of generate_questions when its call ends as o.
GenerateQuestions(o) == IF o.raised THEN <<>> ELSE QParse(o.text).result

\* (The list of get_subtopics used whole.)
TruncateNothing(list) == list

\* Lines 347-351: only the first 9 subtopics are used.
Truncate(list) == Take(list, TargetCount)

NoEntry == [filled |-> FALSE, name |-> <<>>, questions |-> <<>>]
Entry(name, questions) == [filled |-> TRUE, name |-> name, questions |-> questions]

\* The future of an invocation: future.result() returns the questions, or
\* re-raises what the invocation raised (line 387).
FutureReturned(questions) == [raised |-> FALSE, questions |-> questions]
FutureRaised == [raised |-> TRUE, questions |-> <<>>]
FuturePending == [raised |-> FALSE, questions |-> <<>>]

\* (The slot of a failed invocation left as None.)
CollectEntrySkipFailed(name, f) ==
    IF f.raised THEN NoEntry ELSE Entry(name, f.questions)

\* Lines 385-398: the entry written for a finished future; the except branch
\* writes an entry with no questions.
CollectEntry(name, f) ==
    IF f.raised THEN Entry(name, <<>>) ELSE Entry(name, f.questions)

\* (A placeholder entry for the topic itself.)
EmptyTreePlaceholder(topic) ==
    [topic |-> topic, subtopics |-> <<[name |-> topic, questions |-> <<>>]>>]

\* The tree returned when there is no subtopic (lines 355-360).
EmptyTree(topic) == [topic |-> topic, subtopics |-> <<>>]

\* Line 401 and the return: the slots that are not None, in order.
TreeOf(topic, slots) ==
    [topic |-> topic,
     subtopics |-> LET kept == SelectSeq(slots, LAMBDA e : e.filled)
                   IN  [i \in 1..Len(kept) |->
                           [name |-> kept[i].name, questions |-> kept[i].questions]]]

NoTree == [topic |-> <<>>, subtopics |-> <<>>]

TreeStart(topic) ==
    [pc |-> "get_subtopics", topic |-> topic, subtopics_list |-> <<>>,
     submitted |-> 0, task |-> <<>>, outcome |-> <<>>, launches |-> <<>>,
     slots |-> <<>>, collected |-> {}, completed |-> 0, tree |-> NoTree]

\* The model's answers in a request: the texts of the subtopic calls and of
\* the question calls.
TreeSubTexts ==
    {Render(PatternList(n, 0, TRUE)) : n \in 0..MaxTreeSubs}
        \cup {Render(v) : v \in {PatternList(2, 1, TRUE), PatternList(3, 3, TRUE),
                                 JList(<<JStr(<<"calvin", "cycle">>), JStr(<<"calvin", "cycle">>)>>)}}
        \cup {<<Prose>>}
TreeSubOutcomes == {CallRaised} \cup {CallReturned(t) : t \in TreeSubTexts}
TreeQOutcomes ==
    {CallRaised, CallReturned(Render(JList(<<Question(FourOptions)>>)))}

TreeTopics == {<<"s1">>}
TreeQResults == {FutureReturned(GenerateQuestions(o)) : o \in TreeQOutcomes}
NumSubtopics == Len(ct.subtopics_list)
Running == {i \in 1..Len(ct.task) : ct.task[i] = "running"}
Queued == {i \in 1..Len(ct.task) : ct.task[i] = "queued"}
Finished == {i \in 1..Len(ct.task) : ct.task[i] = "done"}

\* (A pool that starts a thread for every work item.)
WorkerFreeUnbounded == TRUE

\* A worker thread is free to take a work item.
WorkerFree == Cardinality(Running) < MaxWorkers

\* (The entry written in completion order.)
SlotIndexByCompletion(i, completed) == completed

\* The index the entry of future i is written at: original_idx.
SlotIndex(i, completed) == i

\* (The loop left after the first future.)
FirstCollected == ct.collected # {}

\* as_completed has yielded every future.
AllCollected == ct.collected = 1..NumSubtopics

InitTree ==
    /\ \E topic \in TreeTopics : ct = TreeStart(topic)
    /\ rc = Idle
    /\ script = <<>>
    /\ gs = Idle
    /\ gq = Idle

\* get_subtopics returned nothing: the empty tree is returned at once.
TreeNoSubtopics ==
    /\ ct.pc = "get_subtopics"
    /\ \E o1, o2 \in TreeSubOutcomes :
         /\ Truncate(GetSubtopics(ct.topic, o1, o2)) = <<>>
         /\ ct' = [ct EXCEPT !.pc = "returned", !.tree = EmptyTree(ct.topic)]
    /\ UNCHANGED <<rc, script, gs, gq>>

\* get_subtopics returned subtopics: the result list gets one None per subtopic.
TreeHasSubtopics ==
    /\ ct.pc = "get_subtopics"
    /\ \E o1, o2 \in TreeSubOutcomes :
         LET list == Truncate(GetSubtopics(ct.topic, o1, o2))
         IN  /\ list # <<>>
             /\ ct' = [ct EXCEPT !.pc = "submit", !.subtopics_list = list,
                                 !.slots = [i \in 1..Len(list) |-> NoEntry],
                                 !.launches = [i \in 1..Len(list) |-> 0]]
    /\ UNCHANGED <<rc, script, gs, gq>>

\* executor.submit for the next subtopic; after the last one the main thread
\* goes on to as_completed.
TreeSubmit ==
    /\ ct.pc = "submit"
    /\ ct' = [ct EXCEPT !.submitted = @ + 1,
                        !.task = Append(@, "queued"),
                        !.outcome = Append(@, FuturePending),
                        !.pc = IF ct.submitted + 1 = NumSubtopics THEN "collect" ELSE "submit"]
    /\ UNCHANGED <<rc, script, gs, gq>>

\* A free worker thread takes the oldest queued work item.
WorkerStart ==
    /\ Queued # {}
    /\ WorkerFree
    /\ LET i == SetMin(Queued)
       IN  ct' = [ct EXCEPT !.task[i] = "running", !.launches[i] = @ + 1]
    /\ UNCHANGED <<rc, script, gs, gq>>

\* A running generate_questions returns.
WorkerFinish ==
    /\ \E i \in Running, r \in TreeQResults :
         ct' = [ct EXCEPT !.task[i] = "done", !.outcome[i] = r]
    /\ UNCHANGED <<rc, script, gs, gq>>

\* as_completed yields a finished future: its entry is written.
TreeCollect ==
    /\ ct.pc = "collect"
    /\ \E i \in Finished \ ct.collected :
         ct' = [ct EXCEPT !.collected = @ \cup {i},
                          !.completed = @ + 1,
                          !.slots[SlotIndex(i, ct.completed + 1)] =
                              CollectEntry(ct.subtopics_list[i], ct.outcome[i])]
    /\ UNCHANGED <<rc, script, gs, gq>>

\* The loop over as_completed has ended: the tree is returned.
TreeReturn ==
    /\ ct.pc = "collect"
    /\ AllCollected
    /\ ct' = [ct EXCEPT !.pc = "returned", !.tree = TreeOf(ct.topic, ct.slots)]
    /\ UNCHANGED <<rc, script, gs, gq>>

NextTree ==
    \/ TreeNoSubtopics
    \/ TreeHasSubtopics
    \/ TreeSubmit
    \/ WorkerStart
    \/ WorkerFinish
    \/ TreeCollect
    \/ TreeReturn

SpecTree == InitTree /\ [][NextTree]_vars
Spec == SpecTree

\* ---------------------------------------------------------------------------
\* create_study_tree with the worker threads shown step by step: every
\* invocation of generate_questions runs its own call_with_retry. gq holds one
\* generate_questions per subtopic; script records which invocations finished
\* while which others were asleep.
\* ---------------------------------------------------------------------------

\* The model's answers in a request of two or three subtopics.
PoolSubTexts == {Render(PatternList(2, 0, TRUE)), Render(PatternList(3, 0, TRUE))}
PoolQTexts == {Render(JList(<<Question(FourOptions)>>))}
PoolHints == {NoHint}

\* The invocations inside time.sleep, and those inside func.
Sleeping == {i \in Running : gq[i].rc.pc = "sleeping"}
Calling == {i \in Running : gq[i].rc.pc = "calling"}

\* (A sleep that holds up every thread of the pool.)
SleepBlocksPool(i, j) == TRUE

\* time.sleep(delay) of invocation i blocks thread j: only its own.
SleepBlocks(i, j) == i = j

\* Invocation j is inside func and no sleep holds its thread up.
CanCall(j) == j \in Calling /\ ~(\E i \in Sleeping : SleepBlocks(i, j))

\* The invocations asleep at the moment invocation j finishes.
AsleepAtFinish(j, g) ==
    IF g.pc = "done" THEN {<<j, i>> : i \in Sleeping \ {j}} ELSE {}

\* Invocation i took a step to g; if generate_questions returned or raised,
\* its future is finished.
PoolAfterStep(i, g) ==
    /\ gq' = [gq EXCEPT ![i] = g]
    /\ ct' = IF g.pc = "done"
             THEN [ct EXCEPT !.task[i] = "done",
                             !.outcome[i] = IF g.raised THEN FutureRaised
                                            ELSE FutureReturned(g.result)]
             ELSE ct
    /\ script' = script \cup AsleepAtFinish(i, g)
    /\ UNCHANGED <<rc, gs>>

\* An exception that gets past the invocation's own handling.
QEscapes(g) == [g EXCEPT !.pc = "done", !.raised = TRUE, !.rc = Idle]

InitPool ==
    /\ \E topic \in TreeTopics : ct = TreeStart(topic)
    /\ gq = <<>>
    /\ script = {}
    /\ rc = Idle
    /\ gs = Idle

\* get_subtopics returned subtopics: one slot and one invocation for each.
PoolHasSubtopics ==
    /\ ct.pc = "get_subtopics"
    /\ \E t \in PoolSubTexts :
         LET list == Truncate(GetSubtopics(ct.topic, CallReturned(t), CallRaised))
         IN  /\ list # <<>>
             /\ ct' = [ct EXCEPT !.pc = "submit", !.subtopics_list = list,
                                 !.slots = [i \in 1..Len(list) |-> NoEntry],
                                 !.launches = [i \in 1..Len(list) |-> 0]]
             /\ gq' = [i \in 1..Len(list) |-> QStart]
    /\ UNCHANGED <<rc, script, gs>>

PoolFuncReturns ==
    \E i \in Running, text \in PoolQTexts :
        /\ CanCall(i)
        /\ PoolAfterStep(i, QAfterStep(gq[i], OnSuccess(gq[i].rc, text)))

PoolFuncRateLimited ==
    \E i \in Running, h \in PoolHints :
        /\ CanCall(i)
        /\ PoolAfterStep(i, QAfterStep(gq[i], OnRateLimit(gq[i].rc, h)))

PoolFuncError ==
    \E i \in Running :
        /\ CanCall(i)
        /\ PoolAfterStep(i, QAfterStep(gq[i], OnOtherError(gq[i].rc)))

\* time.sleep of invocation i returns.
PoolWake ==
    \E i \in Sleeping :
        PoolAfterStep(i, [gq[i] EXCEPT !.rc = AfterSleep(gq[i].rc)])

\* An invocation ends with an exception: future.result() will raise it.
PoolInvocationRaises ==
    \E i \in Running :
        /\ CanCall(i)
        /\ PoolAfterStep(i, QEscapes(gq[i]))

NextPool ==
    \/ PoolHasSubtopics
    \/ TreeSubmit
    \/ WorkerStart
    \/ PoolFuncReturns
    \/ PoolFuncRateLimited
    \/ PoolFuncError
    \/ PoolWake
    \/ PoolInvocationRaises
    \/ TreeCollect
    \/ TreeReturn

SpecPool == InitPool /\ [][NextPool]_vars

(***************************************************************************)
(* create_study_tree on long subtopic lists: get_subtopics answers with up *)
(* to MaxListLen subtopics, from its main prompt or from its simplified    *)
(* retry, and every generate_questions returns the same one question.      *)
(* script keeps what get_subtopics returned, before line 350 cuts it.      *)
(***************************************************************************)
LongLengths == {0, 1, TargetCount, MaxListLen}
LongMainOutcomes ==
    {CallRaised, CallReturned(<<Prose>>), CallReturned(Render(PatternList(MaxListLen, 0, TRUE)))}
LongRetryOutcomes ==
    {CallRaised} \cup {CallReturned(Render(PatternList(n, 0, TRUE))) : n \in LongLengths}
LongQResults ==
    {FutureReturned(GenerateQuestions(CallReturned(Render(JList(<<Question(FourOptions)>>)))))}

InitLong ==
    /\ \E topic \in TreeTopics : ct = TreeStart(topic)
    /\ rc = Idle
    /\ script = <<>>
    /\ gs = Idle
    /\ gq = Idle

\* Lines 345-360: get_subtopics returns, the list is cut to its first 9, and
\* the empty tree is returned at once when nothing is left.
LongAfterSubtopics ==
    /\ ct.pc = "get_subtopics"
    /\ \E o1 \in LongMainOutcomes, o2 \in LongRetryOutcomes :
         LET returned == GetSubtopics(ct.topic, o1, o2)
             list == Truncate(returned)
         IN  /\ script' = returned
             /\ ct' = IF list = <<>>
                      THEN [ct EXCEPT !.pc = "returned", !.tree = EmptyTree(ct.topic)]
                      ELSE [ct EXCEPT !.pc = "submit", !.subtopics_list = list,
                                      !.slots = [i \in 1..Len(list) |-> NoEntry],
                                      !.launches = [i \in 1..Len(list) |-> 0]]
    /\ UNCHANGED <<rc, gs, gq>>

\* A running generate_questions returns.
LongWorkerFinish ==
    /\ \E i \in Running, r \in LongQResults :
         ct' = [ct EXCEPT !.task[i] = "done", !.outcome[i] = r]
    /\ UNCHANGED <<rc, script, gs, gq>>

NextLong ==
    \/ LongAfterSubtopics
    \/ TreeSubmit
    \/ WorkerStart
    \/ LongWorkerFinish
    \/ TreeCollect
    \/ TreeReturn

SpecLong == InitLong /\ [][NextLong]_vars

(***************************************************************************)
(* A whole request: create_study_tree with get_subtopics and every         *)
(* generate_questions running their own call_with_retry. gs is the         *)
(* get_subtopics of the request, gq the invocations of generate_questions. *)
(***************************************************************************)
RequestSubTexts ==
    {<<Prose>>, Render(PatternList(1, 0, TRUE)), Render(PatternList(2, 0, TRUE))}

InitRequest ==
    /\ \E topic \in TreeTopics :
         /\ ct = TreeStart(topic)
         /\ gs = SubStart(topic)
    /\ gq = <<>>
    /\ script = {}
    /\ rc = Idle

\* The model answers a call of get_subtopics with a text.
RequestSubReturns ==
    /\ SubCalling
    /\ \E text \in RequestSubTexts : gs' = SubAfterStep(gs, OnSuccess(gs.rc, text))
    /\ UNCHANGED <<rc, script, gq, ct>>

\* Lines 345-367: get_subtopics has returned; the empty tree is returned at
\* once, or there is one slot and one invocation for each subtopic.
RequestAfterSubtopics ==
    /\ ct.pc = "get_subtopics"
    /\ gs.pc = "done"
    /\ LET list == Truncate(gs.result)
       IN  IF list = <<>>
           THEN /\ ct' = [ct EXCEPT !.pc = "returned", !.tree = EmptyTree(ct.topic)]
                /\ gq' = gq
           ELSE /\ ct' = [ct EXCEPT !.pc = "submit", !.subtopics_list = list,
                                    !.slots = [i \in 1..Len(list) |-> NoEntry],
                                    !.launches = [i \in 1..Len(list) |-> 0]]
                /\ gq' = [i \in 1..Len(list) |-> QStart]
    /\ UNCHANGED <<rc, script, gs>>

NextRequest ==
    \/ RequestSubReturns
    \/ SubFuncRateLimited
    \/ SubFuncError
    \/ SubWake
    \/ RequestAfterSubtopics
    \/ TreeSubmit
    \/ WorkerStart
    \/ PoolFuncReturns
    \/ PoolFuncRateLimited
    \/ PoolFuncError
    \/ PoolWake
    \/ PoolInvocationRaises
    \/ TreeCollect
    \/ TreeReturn

\* Every model call ends, every sleep ends, a free worker takes a queued
\* work item, and the main thread goes on when it can. An open call can
\* always end by raising, so the fairness of the calls is stated on that
\* step: it is enabled exactly while a call is open, and the behaviours it
\* rules out are those in which a call stays open for ever.
FairRequest ==
    /\ WF_vars(SubFuncError)
    /\ WF_vars(SubWake)
    /\ WF_vars(RequestAfterSubtopics)
    /\ WF_vars(TreeSubmit)
    /\ WF_vars(WorkerStart)
    /\ WF_vars(PoolFuncError)
    /\ WF_vars(PoolWake)
    /\ WF_vars(TreeCollect)
    /\ WF_vars(TreeReturn)

SpecRequest == InitRequest /\ [][NextRequest]_vars /\ FairRequest

(***************************************************************************)
(* POST /api/generate-study (app.py:18-44)                                 *)
(*                                                                         *)
(* The request body is a JSON object; script holds its two fields, each    *)
(* absent or a JSON value. ct holds the handler's locals, the value it     *)
(* passed to create_study_tree and the response's status.                  *)
(***************************************************************************)
MaxRequested == 12
DefaultQuestions == 3
MinQuestions == 1
MaxQuestionsPerSubtopic == 10

\* A float that json.loads reads as infinite (1e999, Infinity).
JInfinity == [JFloat(0) EXCEPT !.k = "inf"]

Absent == [present |-> FALSE, v |-> JNull]
Field(v) == [present |-> TRUE, v |-> v]

\* dict.get(key, default) on the request body.
Get(field, default) == IF field.present THEN field.v ELSE default

IntRaised(exc) == [raised |-> exc, n |-> 0]
IntValue(n) == [raised |-> "none", n |-> n]

\* int(x): an int is itself, a bool is 0 or 1, a float (n + 0.5 here) is cut
\* towards zero, a string is stripped and read as a decimal numeral; a string
\* that is no numeral is a ValueError, an infinite float an OverflowError,
\* None, a list or a dict a TypeError.
IntOf(v) ==
    CASE v.k = "int" -> IntValue(v.n)
      [] v.k = "bool" -> IntValue(v.n)
      [] v.k = "float" -> IntValue(IF v.n >= 0 THEN v.n ELSE v.n + 1)
      [] v.k = "inf" -> IntRaised("OverflowError")
      [] v.k = "str" ->
           LET str == StripStr(v.w)
           IN  IF Len(str) = 1 /\ \E i \in DOMAIN NameDigits : NameDigits[i] = str[1]
               THEN IntValue(CHOOSE i \in DOMAIN NameDigits : NameDigits[i] = str[1])
               ELSE IntRaised("ValueError")
      [] OTHER -> IntRaised("TypeError")

\* Lines 30-35: the value create_study_tree is to get, or the exception that
\* leaves the inner try (only ValueError and TypeError are caught there).
ValidateQuestionsPerSubtopic(v) ==
    LET r == IntOf(v)
    IN  IF r.raised \in {"ValueError", "TypeError"} THEN IntValue(DefaultQuestions)
        ELSE IF r.raised # "none" THEN r
        ELSE IF r.n < MinQuestions \/ r.n > MaxQuestionsPerSubtopic
             THEN IntValue(DefaultQuestions)
        ELSE r

RequestTopics ==
    {Absent, Field(JStr(<<>>)), Field(JStr(<<" ">>)), Field(JStr(<<"s1">>)),
     Field(JStr(<<" ", "deep", "nets", " ">>)), Field(JInt(7))}
RequestQuestions ==
    {Absent, Field(JNull), Field(JBool(TRUE)), Field(JBool(FALSE)), Field(JInfinity),
     Field(JList(<<JInt(5)>>)), Field(JStr(<<>>)), Field(JStr(<<"basics">>))}
        \cup {Field(JInt(n)) : n \in -2..MaxRequested}
        \cup {Field(JFloat(n)) : n \in -2..MaxRequested}
        \cup {Field(JStr(<<" ", NameDigits[n]>>)) : n \in 1..MaxRequested}

StudyStart ==
    [pc |-> "read", topic |-> <<>>, questions_per_subtopic |-> JNull,
     called |-> FALSE, passed |-> 0, status |-> 0]

StudyRespond(h, status) == [h EXCEPT !.pc = "responded", !.status = status]

InitStudy ==
    /\ \E t \in RequestTopics, q \in RequestQuestions :
         script = [topic |-> t, questions_per_subtopic |-> q]
    /\ ct = StudyStart
    /\ rc = Idle
    /\ gs = Idle
    /\ gq = Idle

\* Lines 22-27: the fields are read; a topic that is no string has no
\* strip() (AttributeError, answered by line 44), an empty topic is a 400.
StudyRead ==
    /\ ct.pc = "read"
    /\ LET topic == Get(script.topic, JStr(<<>>))
           q == Get(script.questions_per_subtopic, JInt(DefaultQuestions))
       IN  ct' = IF topic.k # "str" THEN StudyRespond(ct, 500)
                 ELSE IF StripStr(topic.w) = <<>>
                      THEN StudyRespond([ct EXCEPT !.questions_per_subtopic = q], 400)
                 ELSE [ct EXCEPT !.pc = "validate", !.topic = StripStr(topic.w),
                                 !.questions_per_subtopic = q]
    /\ UNCHANGED <<rc, script, gs, gq>>

\* Lines 30-35.
StudyValidate ==
    /\ ct.pc = "validate"
    /\ LET r == ValidateQuestionsPerSubtopic(ct.questions_per_subtopic)
       IN  ct' = IF r.raised # "none" THEN StudyRespond(ct, 500)
                 ELSE [ct EXCEPT !.pc = "call", !.questions_per_subtopic = JInt(r.n)]
    /\ UNCHANGED <<rc, script, gs, gq>>

\* Lines 38-44: create_study_tree is called and returns a tree (200) or
\* raises (500).
StudyCall ==
    /\ ct.pc = "call"
    /\ \E ok \in BOOLEAN :
         ct' = StudyRespond([ct EXCEPT !.called = TRUE,
                                       !.passed = ct.questions_per_subtopic.n],
                            IF ok THEN 200 ELSE 500)
    /\ UNCHANGED <<rc, script, gs, gq>>

NextStudy ==
    \/ StudyRead
    \/ StudyValidate
    \/ StudyCall

SpecStudy == InitStudy /\ [][NextStudy]_vars

(***************************************************************************)
(* POST /api/tts (app.py:46-74) and text_to_speech (tts_service.py:16-59)  *)
(*                                                                         *)
(* script holds the environment of one request: ELEVENLABS_API_KEY as the  *)
(* process read it (None, the empty string, or a key) and the text field   *)
(* of the body. ct holds the handler's state: the HTTP calls issued to the *)
(* provider, the exception that reached the route, the response.           *)
(***************************************************************************)
NotConfigured == "TTS service not configured"
ApiKeys == {"None", "", "key_a", "key_b"}
TtsTexts ==
    {Absent, Field(JNull), Field(JInt(7)), Field(JStr(<<>>)), Field(JStr(<<" ">>)),
     Field(JStr(<<"s1">>)), Field(JStr(<<" ", "deep", "nets", " ">>)),
     Field(JStr(<<"calvin", "cycle">>)), Field(JStr(<<"basics">>)),
     Field(JStr(<<"light", "reactions">>))}

\* What requests.post and raise_for_status end in: a 2xx response, another
\* status (HTTPError), or no response at all (ConnectionError, Timeout).
PostOutcomes ==
    {[kind |-> "ok", exc |-> "none", status |-> 200]}
        \cup {[kind |-> "status", exc |-> "HTTPError", status |-> c] : c \in {401, 429, 500}}
        \cup {[kind |-> "network", exc |-> e, status |-> 0] : e \in {"ConnectionError", "Timeout"}}

TtsStart ==
    [pc |-> "read", text |-> <<>>, http_calls |-> 0, raised |-> "none",
     upstream |-> 0, status |-> 0, error |-> ""]

\* Lines 69-74 of app.py: a ValueError is answered as a configuration
\* error, anything else with the exception's own message.
TtsOnException(h, exc) ==
    [h EXCEPT !.pc = "responded", !.raised = exc, !.status = 500,
              !.error = IF exc = "ValueError" THEN NotConfigured ELSE exc]

\* (The request sent again after a failure.)
OnRequestExceptionRetried(h, o) ==
    IF h.http_calls < 2 THEN [h EXCEPT !.pc = "post", !.upstream = o.status]
    ELSE TtsOnException([h EXCEPT !.upstream = o.status], o.exc)

\* Lines 54-59 of tts_service.py: the failure is logged with the upstream
\* status and raised again, up to the route.
OnRequestException(h, o) == TtsOnException([h EXCEPT !.upstream = o.status], o.exc)

InitTts ==
    /\ \E k \in ApiKeys, t \in TtsTexts : script = [api_key |-> k, text |-> t]
    /\ ct = TtsStart
    /\ rc = Idle
    /\ gs = Idle
    /\ gq = Idle

\* Lines 50-54 of app.py: a text that is no string has no strip()
\* (AttributeError), an empty text is a 400.
TtsRead ==
    /\ ct.pc = "read"
    /\ LET text == Get(script.text, JStr(<<>>))
       IN  ct' = IF text.k # "str" THEN TtsOnException(ct, "AttributeError")
                 ELSE IF StripStr(text.w) = <<>>
                      THEN [ct EXCEPT !.pc = "responded", !.status = 400,
                                      !.error = "Text is required"]
                 ELSE [ct EXCEPT !.pc = "text_to_speech", !.text = StripStr(text.w)]
    /\ UNCHANGED <<rc, script, gs, gq>>

\* Lines 30-31 of tts_service.py: without a key (None or empty) a
\* ValueError is raised before anything is sent.
TtsCheckKey ==
    /\ ct.pc = "text_to_speech"
    /\ ct' = IF script.api_key \in {"None", ""} THEN TtsOnException(ct, "ValueError")
             ELSE [ct EXCEPT !.pc = "post"]
    /\ UNCHANGED <<rc, script, gs, gq>>

\* Lines 48-59 of tts_service.py and 57-67 of app.py: one requests.post; its
\* content is returned as audio/mpeg, or its failure is raised again.
TtsPost ==
    /\ ct.pc = "post"
    /\ \E o \in PostOutcomes :
         LET h == [ct EXCEPT !.http_calls = @ + 1]
         IN  ct' = IF o.kind = "ok"
                   THEN [h EXCEPT !.pc = "responded", !.status = 200, !.upstream = o.status]
                   ELSE OnRequestException(h, o)
    /\ UNCHANGED <<rc, script, gs, gq>>

NextTts ==
    \/ TtsRead
    \/ TtsCheckKey
    \/ TtsPost

SpecTts == InitTts /\ [][NextTts]_vars

(***************************************************************************)
(* Claims about call_with_retry, checked under SpecRetry.                  *)
(***************************************************************************)
Invoked == 1..rc.ncalls

\* func raises ResourceExhausted on its first k invocations, then returns.
RaisesThenSucceeds(k) ==
    /\ k + 1 \in DOMAIN script
    /\ \A i \in 1..k : script[i].kind = "rl"
    /\ script[k + 1].kind = "ok"

AlwaysRateLimited == \A i \in DOMAIN script : script[i].kind = "rl"
AlwaysOtherError == \A i \in DOMAIN script : script[i].kind = "err"

\* C2: a non-rate-limit error is never retried. Once invocation i of func has
\* raised an exception that is not ResourceExhausted, the call has raised that
\* exception and func was invoked i times and no more; and when func always
\* raises such an exception it is invoked exactly once and nothing is slept.
C2_NoRetryOnOtherError ==
    /\ \A i \in Invoked :
          script[i].kind = "err" =>
              /\ rc.pc = "raised"
              /\ rc.raised = "Exception"
              /\ rc.raised_from = i
              /\ rc.ncalls = i
    /\ (AlwaysOtherError /\ rc.ncalls > 0) => (rc.ncalls = 1 /\ rc.sleeps = <<>>)

\* A non-rate-limit error on the second invocation, after one rate-limit retry.
C2_Witness ==
    /\ rc.ncalls = 2
    /\ script[1].kind = "rl"
    /\ script[2].kind = "err"
    /\ Len(rc.sleeps) = 1
    /\ rc.pc = "raised"

\* C3: for every k in 0..max_retries, when func raises a rate-limit error on
\* its first k invocations and then succeeds, the call returns that success
\* value and func was invoked exactly k + 1 times.
C3_ReturnsAfterKRateLimits ==
    \A k \in 0..rc.max_retries :
        (RaisesThenSucceeds(k) /\ RetryDone(rc)) =>
            /\ rc.pc = "returned"
            /\ rc.result = script[k + 1].val
            /\ rc.ncalls = k + 1

\* C4: when func raises a rate-limit error on every invocation, it is invoked
\* exactly max_retries + 1 times, exactly max_retries sleeps occur, and the
\* call raises the rate-limit error of the last invocation.
C4_BoundedRetries ==
    (AlwaysRateLimited /\ RetryDone(rc)) =>
        /\ rc.ncalls = rc.max_retries + 1
        /\ Len(rc.sleeps) = rc.max_retries
        /\ rc.pc = "raised"
        /\ rc.raised = "ResourceExhausted"
        /\ rc.raised_from = rc.max_retries + 1

(***************************************************************************)
(* Claims about get_subtopics, checked under SpecSubtopics.                *)
(***************************************************************************)

\* C5: whatever the model does on the main call and on the simplified retry
\* call, get_subtopics does not raise and returns at most 9 subtopics.
C5_AtMostNineSubtopics ==
    gs.pc = "done" => (~gs.raised /\ Len(gs.result) <= 9)

(***************************************************************************)
(* Claims about generate_questions, checked under SpecQuestions.           *)
(***************************************************************************)
ValidIndex(q) ==
    /\ HasKey(q, KCorrectIndex)
    /\ IsInt(GetKey(q, KCorrectIndex))
    /\ 0 <= GetKey(q, KCorrectIndex).n
    /\ HasLen(GetKey(q, KOptions))
    /\ GetKey(q, KCorrectIndex).n < LenOf(GetKey(q, KOptions))

\* C6: every question generate_questions returns has a correct_index that is
\* a valid index into its options: 0 <= correct_index < len(options).
C6_CorrectIndexValid ==
    gq.pc = "done" => \A i \in 1..Len(gq.result) : ValidIndex(gq.result[i])

\* What the response text decodes to.
QDecoded == JsonLoads(QNormalize(gq.text))

\* C7: generate_questions never raises; it returns a sequence, and the
\* sequence is empty when its model call raised (a rate-limit error that
\* outlived the retries, or any other error), when the text does not decode,
\* when it decodes to something that is no array, and when validation raises.
C7_NeverRaises ==
    gq.pc = "done" =>
        /\ ~gq.raised
        /\ DOMAIN gq.result = 1..Len(gq.result)
        /\ gq.call_raised => gq.result = <<>>
        /\ (~gq.call_raised /\ ~QDecoded.ok) => gq.result = <<>>
        /\ (~gq.call_raised /\ QDecoded.ok /\ QDecoded.v.k # "list") => gq.result = <<>>
        /\ gq.parse_raised => gq.result = <<>>

\* The text decoded to an array, and len() of an element's options raised.
C7_Witness ==
    /\ gq.pc = "done"
    /\ ~gq.call_raised
    /\ QDecoded.ok
    /\ QDecoded.v.k = "list"
    /\ gq.parse_raised
    /\ gq.result = <<>>

(***************************************************************************)
(* Claims about create_study_tree, checked under SpecTree.                 *)
(***************************************************************************)
Returned == ct.pc = "returned"

\* C1: the order of the returned subtopics does not depend on the order in
\* which the invocations finish. Every entry written so far, and every entry
\* of the returned tree, has at index i the name of the i-th subtopic and the
\* questions the invocation launched for the i-th subtopic returned.
C1_OrderIndependent ==
    /\ \A i \in 1..Len(ct.slots) :
          ct.slots[i].filled =>
              /\ ct.slots[i].name = ct.subtopics_list[i]
              /\ ct.slots[i].questions = ct.outcome[i].questions
    /\ (Returned /\ NumSubtopics > 0) =>
          /\ Len(ct.tree.subtopics) = NumSubtopics
          /\ \A i \in 1..NumSubtopics :
                /\ ct.tree.subtopics[i].name = ct.subtopics_list[i]
                /\ ct.tree.subtopics[i].questions = ct.outcome[i].questions

\* The invocation of the third subtopic was collected before those of the
\* first two, whose results differ.
C1_Witness ==
    /\ NumSubtopics >= 3
    /\ ct.collected = {3}
    /\ ct.task[1] = "done"
    /\ ct.task[2] = "done"
    /\ ct.outcome[1] # ct.outcome[2]

\* C8: when get_subtopics returns the empty sequence, the tree returned is
\* {topic, subtopics: []} and no question-generation invocation is submitted
\* or started at any time.
C8_EmptyTreeNoInvocations ==
    /\ (Returned /\ NumSubtopics = 0) => ct.tree = [topic |-> ct.topic, subtopics |-> <<>>]
    /\ NumSubtopics = 0 =>
          /\ ct.submitted = 0
          /\ ct.task = <<>>
          /\ ct.launches = <<>>
          /\ ct.pc \in {"get_subtopics", "returned"}

C8_Witness == Returned /\ NumSubtopics = 0

\* C9: at every moment at most 6 question-generation invocations are in
\* flight (started and not yet finished).
C9_AtMostSixInFlight == Cardinality(Running) <= 6

\* Six invocations run while a seventh waits for a worker.
C9_Witness == Cardinality(Running) = 6 /\ Queued # {}

\* C10: the tree is returned only after every submitted invocation has
\* finished, exactly one invocation was launched for each retained subtopic
\* (and never more than one at any time), and the returned tree has exactly
\* one entry for each retained subtopic.
C10_AllSettledOnePerSubtopic ==
    /\ \A i \in 1..Len(ct.launches) : ct.launches[i] <= 1
    /\ Len(ct.task) <= NumSubtopics
    /\ (Returned /\ NumSubtopics > 0) =>
          /\ Len(ct.task) = NumSubtopics
          /\ \A i \in 1..NumSubtopics : ct.task[i] = "done" /\ ct.launches[i] = 1
          /\ Len(ct.tree.subtopics) = NumSubtopics

\* A tree of more subtopics than the pool has workers has been returned.
C10_Witness == Returned /\ NumSubtopics > MaxWorkers

\* C11: an invocation that raises does not fail the tree. The returned tree
\* has one entry per subtopic, in subtopic order; the entry of an invocation
\* that raised has an empty questions list, and every other entry has the
\* questions its own invocation returned.
C11_FailedInvocationKeepsTree ==
    (Returned /\ NumSubtopics > 0) =>
        /\ Len(ct.tree.subtopics) = NumSubtopics
        /\ \A i \in 1..NumSubtopics :
              /\ ct.tree.subtopics[i].name = ct.subtopics_list[i]
              /\ gq[i].raised => ct.tree.subtopics[i].questions = <<>>
              /\ ~gq[i].raised => ct.tree.subtopics[i].questions = gq[i].result

\* A tree was returned in which the first invocation raised and a later one
\* returned questions.
C11_Witness ==
    /\ Returned
    /\ NumSubtopics >= 2
    /\ gq[1].raised
    /\ \E j \in 2..NumSubtopics : ~gq[j].raised /\ gq[j].result # <<>>

\* A step of invocation j alone: its pending call of func ends (here with an
\* error, which finishes the invocation), or its own sleep ends.
CanProgress(j) ==
    \/ /\ CanCall(j)
       /\ PoolAfterStep(j, QAfterStep(gq[j], OnOtherError(gq[j].rc)))
    \/ /\ j \in Sleeping
       /\ PoolAfterStep(j, [gq[j] EXCEPT !.rc = AfterSleep(gq[j].rc)])

\* C12: while an invocation sleeps in call_with_retry, every other in-flight
\* invocation can still take its next step and finish: the step that ends
\* its call of func, or the one that ends its own sleep, stays enabled. The
\* sleep of one invocation never disables a step of another.
C12_SleepBlocksOnlyCaller ==
    \A i \in Sleeping : \A j \in Running \ {i} : ENABLED CanProgress(j)

\* An invocation returned questions while another one was asleep, and that
\* one is still asleep.
C12_Witness ==
    \E p \in script :
        /\ p[2] \in Sleeping
        /\ ct.task[p[1]] = "done"
        /\ gq[p[1]].result # <<>>

\* The first response of get_subtopics came back and could not be decoded.
MainDecodeFailed ==
    gs.main_raised = "none" /\ ~SubMainParse(gs.main_text, gs.topic).decoded

\* What json.loads makes of the retry response, after its bracket search.
RetryDecode(raw) ==
    LET t == Strip(raw)
    IN  JsonLoads(IF HasBracketSpan(t) THEN BracketSpan(t) ELSE t)

\* C13: when the first response cannot be decoded, get_subtopics issues the
\* simplified retry prompt exactly once. If the retry response decodes to a
\* non-empty list, the result is all of its items as strings, in order and
\* unfiltered; if the retry raises, does not decode, or is not a non-empty
\* list, the result is empty.
C13_OneSimplifiedRetry ==
    /\ gs.retry_prompts <= 1
    /\ (gs.pc = "done" /\ MainDecodeFailed) =>
          LET d == RetryDecode(gs.retry_text)
          IN  /\ gs.retry_prompts = 1
              /\ IF gs.retry_raised = "none" /\ d.ok /\ d.v.k = "list" /\ Len(d.v.items) > 0
                 THEN gs.result = StrSeq(d.v.items)
                 ELSE gs.result = <<>>

\* The retry returned more than five items, the first of them generic, and
\* all of them are in the result.
C13_Witness ==
    /\ gs.pc = "done"
    /\ MainDecodeFailed
    /\ gs.retry_prompts = 1
    /\ Len(gs.result) > 5
    /\ IsGeneric(gs.result[1], gs.topic)

\* C14: when the first call_with_retry of get_subtopics raises (a rate-limit
\* error after the last retry, or any other error), the result is empty and
\* the simplified retry prompt is never issued.
C14_CallFailureNoRetryPrompt ==
    (gs.pc = "done" /\ gs.main_raised # "none") =>
        /\ gs.result = <<>>
        /\ gs.retry_prompts = 0
        /\ gs.retry_calls = 0

\* The first call gave up on rate-limit errors after its last retry.
C14_Witness ==
    /\ gs.pc = "done"
    /\ gs.main_raised = "ResourceExhausted"
    /\ gs.main_calls = DefaultMaxRetries + 1

\* The list the first response of get_subtopics decoded to.
MainDecode == JsonLoads(SubNormalize(gs.main_text))
MainList == MainDecode.v.items

\* get_subtopics returned from a first response that decoded to a non-empty list.
MainListReturned ==
    /\ gs.pc = "done"
    /\ gs.main_raised = "none"
    /\ gs.retry_prompts = 0
    /\ MainDecode.ok
    /\ MainDecode.v.k = "list"
    /\ Len(MainList) > 0

\* The items the generic filter keeps and the ones it drops, in list order.
KeptItems == FilterGeneric(MainList, gs.topic)
DroppedItems ==
    SelectSeq(StrSeq(MainList), LAMBDA st : IsGeneric(StripStr(st), gs.topic))

\* The filter kept some items of the decoded list, but fewer than 9.
BackfillCase == MainListReturned /\ Len(KeptItems) > 0 /\ Len(KeptItems) < 9

\* The kept items, then the dropped ones, up to 9; as many as min(9, length).
BackfillOrder ==
    /\ gs.result = Take(KeptItems \o DroppedItems, 9)
    /\ Len(gs.result) = Min(9, Len(MainList))

\* C15 as stated: in the backfill case the result is the kept items followed
\* by the dropped ones, in list order, up to 9; its length is min(9, length
\* of the decoded list); and every element of the result is an element of
\* the decoded list.
C15_BackfillElementsOfList ==
    BackfillCase =>
        /\ BackfillOrder
        /\ \A k \in 1..Len(gs.result) : gs.result[k] \in Range(StrSeq(MainList))

\* C15, amended: as above, but every element of the result is the text of an
\* element of the decoded list, without its surrounding whitespace when the
\* filter kept it.
C15_BackfillOrder ==
    BackfillCase =>
        /\ BackfillOrder
        /\ \A k \in 1..Len(gs.result) :
              \E n \in 1..Len(MainList) :
                  gs.result[k] = (IF k <= Len(KeptItems)
                                  THEN StripStr(StrOf(MainList[n]))
                                  ELSE StrOf(MainList[n]))

\* A list of more than 9 items whose first items are generic: the result is
\* cut at 9 and ends with a dropped item.
C15_Witness ==
    /\ BackfillCase
    /\ Len(MainList) > 9
    /\ Len(gs.result) = 9
    /\ IsGeneric(gs.result[9], gs.topic)
    /\ gs.result[1] # StrOf(MainList[1])

\* C16: when the decoded list is not empty and the generic filter drops every
\* item, the result is the decoded list as strings, in its order, cut to its
\* first 9 items.
C16_FallbackToOriginalList ==
    (MainListReturned /\ Len(KeptItems) = 0) =>
        /\ gs.result = Take(StrSeq(MainList), 9)
        /\ Len(gs.result) = Min(9, Len(MainList))

\* Every one of more than 9 items was generic, and 9 of them came back.
C16_Witness ==
    /\ MainListReturned
    /\ Len(KeptItems) = 0
    /\ Len(MainList) > 9
    /\ Len(gs.result) = 9
    /\ IsGeneric(gs.result[9], gs.topic)

\* The decoded elements that are records with a 'question' and an 'options'.
MinimumFieldRecords == SelectSeq(QDecoded.v.items, IsQuestion)

\* C17: from a response that decodes to an array, generate_questions returns
\* exactly the elements that are records with both a 'question' and an
\* 'options' field, in decoded order (each with its question and options
\* as decoded); the other elements are dropped without any loss of the
\* valid ones.
C17_KeepsMinimumFieldRecords ==
    (gq.pc = "done" /\ ~gq.call_raised /\ QDecoded.ok /\ QDecoded.v.k = "list") =>
        /\ Len(gq.result) = Len(MinimumFieldRecords)
        /\ \A i \in 1..Len(gq.result) :
              /\ GetKey(gq.result[i], KQuestion) = GetKey(MinimumFieldRecords[i], KQuestion)
              /\ GetKey(gq.result[i], KOptions) = GetKey(MinimumFieldRecords[i], KOptions)

\* The k-th sleep of the call followed a rate-limit error without a hint.
SleptWithoutHint(k) ==
    k \in 1..Len(rc.sleeps) /\ script[k].kind = "rl" /\ ~script[k].hint.present

\* The k-th sleep of the call followed a rate-limit error with a hint that
\* reads as a number of seconds.
SleptWithHint(k) ==
    k \in 1..Len(rc.sleeps) /\ script[k].kind = "rl"
        /\ script[k].hint.present /\ script[k].hint.valid

\* C18: after a rate-limit error without a retry hint on the attempt numbered
\* a (from 0), the sleep before the next attempt is exactly
\* min(max_delay, base_delay * 2^a).
C18_BackoffDelay ==
    \A a \in 0..rc.max_retries :
        SleptWithoutHint(a + 1) =>
            rc.sleeps[a + 1] = (IF rc.base_delay * 2^a < rc.max_delay
                                THEN rc.base_delay * 2^a ELSE rc.max_delay)

\* Three sleeps without a hint: the second was doubled, the third was cut to
\* max_delay.
C18_Witness ==
    /\ SleptWithoutHint(1)
    /\ SleptWithoutHint(2)
    /\ SleptWithoutHint(3)
    /\ rc.sleeps[2] = 2 * rc.sleeps[1]
    /\ rc.sleeps[3] = rc.max_delay
    /\ rc.sleeps[3] < 4 * rc.base_delay

\* C19 as stated: after a rate-limit error with a suggested retry-after
\* duration s, when a retry remains, the sleep is s + 1 seconds whatever s is.
C19_HintDelayPlusOne ==
    \A k \in 1..Len(rc.sleeps) :
        SleptWithHint(k) => rc.sleeps[k] = script[k].hint.secs + 1

\* C19, amended: the sleep is s + 1 seconds in place of the exponential
\* backoff, but never more than max_delay: it is min(max_delay, s + 1).
C19_HintDelayCapped ==
    \A k \in 1..Len(rc.sleeps) :
        SleptWithHint(k) =>
            rc.sleeps[k] = (IF script[k].hint.secs + 1 < rc.max_delay
                            THEN script[k].hint.secs + 1 ELSE rc.max_delay)

\* On the second attempt the hint's s + 1 was slept, which is neither the
\* backoff of that attempt nor max_delay.
C19_Witness ==
    /\ SleptWithHint(2)
    /\ rc.sleeps[2] = script[2].hint.secs + 1
    /\ rc.sleeps[2] # rc.base_delay * 2
    /\ rc.sleeps[2] < rc.max_delay

\* The text is prose, then a JSON array, with no code fence anywhere.
ProseThenArray(text) ==
    /\ Len(text) >= 4
    /\ text[1] = Prose
    /\ text[2] = Ws
    /\ text[3].t = "["
    /\ \A i \in 1..Len(text) : text[i] # Fence
    /\ JsonLoads(SubSeq(text, 3, Len(text))).ok

\* C20: both generators normalize a response of bracket-free prose followed
\* by a JSON array, without a code fence, to that array: get_subtopics and
\* generate_questions decode the same payload from the same raw text.
C20_SameNormalization ==
    (gq.pc = "done" /\ ~gq.call_raised /\ ProseThenArray(gq.text)) =>
        LET array == JsonLoads(SubSeq(gq.text, 3, Len(gq.text)))
        IN  /\ JsonLoads(SubNormalize(gq.text)) = array
            /\ JsonLoads(QNormalize(gq.text)) = array

\* The text is one fenced block and nothing else: a fence, the tag json or
\* nothing, whitespace, a JSON text that the tag announces or that starts with
\* "[" or "{", whitespace, the closing fence. The JSON text may have ``` in
\* the content of a string.
FencedJsonStart(text) == IF text[2] = JsonTag THEN 4 ELSE 3
FencedJson(text) ==
    /\ Len(text) >= 5
    /\ text[1] = Fence
    /\ text[Len(text)] = Fence
    /\ \A i \in 2..(Len(text) - 1) : text[i] # Fence
    /\ text[FencedJsonStart(text) - 1] = Ws
    /\ text[Len(text) - 1] = Ws
    /\ text[2] = JsonTag \/ text[3].t \in {"[", "{"}
    /\ JsonLoads(SubSeq(text, FencedJsonStart(text), Len(text) - 2)).ok
EnclosedJson(text) == SubSeq(text, FencedJsonStart(text), Len(text) - 2)

\* C21: for a raw response that begins with a code fence, the fence step of
\* the normalizer, in get_subtopics and in generate_questions alike, selects
\* the first part between fences that starts with the tag json, with "[" or
\* with "{", drops the tag, and yields exactly the enclosed JSON text.
C21_FenceYieldsEnclosedJson ==
    (gs.pc # "main_call" /\ gs.main_raised = "none" /\ FencedJson(gs.main_text)) =>
        /\ SubFenceStep(gs.main_text) = EnclosedJson(gs.main_text)
        /\ QFenceStep(gs.main_text) = EnclosedJson(gs.main_text)

\* The names of the tree's entries, in order.
TreeNames == [i \in 1..Len(ct.tree.subtopics) |-> ct.tree.subtopics[i].name]

\* C22: the tree returned by create_study_tree never has more than 9
\* subtopic entries, whatever length get_subtopics returned (the simplified
\* retry included); when more than 9 were returned, the entries are exactly
\* the first 9, in order.
C22_TreeAtMostNine ==
    ct.pc = "returned" =>
        /\ Len(ct.tree.subtopics) <= 9
        /\ Len(script) > 9 => TreeNames = SubSeq(script, 1, 9)

\* get_subtopics returned more than 9 subtopics (from its simplified retry)
\* and the tree was returned with 9 entries.
C22_Witness ==
    /\ ct.pc = "returned"
    /\ Len(script) > 9
    /\ Len(ct.tree.subtopics) = 9

\* The request's questions_per_subtopic is missing, or int() does not
\* convert it.
NotConvertible(field) == ~field.present \/ IntOf(field.v).raised # "none"

Clamp(n, lo, hi) == IF n < lo THEN lo ELSE IF n > hi THEN hi ELSE n

\* C23: the questions_per_subtopic that POST /api/generate-study passes to
\* create_study_tree is the request's value clamped to [1, 10] (above 10 it
\* is 10, below 1 it is 1, in range it is unchanged), and 3 when the field
\* is missing or not convertible to an integer.
C23_QuestionsClamped ==
    ct.called =>
        ct.passed = (IF NotConvertible(script.questions_per_subtopic) THEN 3
                     ELSE Clamp(IntOf(script.questions_per_subtopic.v).n, 1, 10))

\* text_to_speech was entered and the request has been answered.
SpeechAnswered == ct.pc = "responded" /\ ct.text # <<>>
Credential == script.api_key \notin {"None", ""}

\* C24: text_to_speech without a configured credential fails with a
\* configuration error and issues no HTTP call, and /api/tts answers it with
\* 'TTS service not configured', which it never answers to a provider or
\* network failure; with a credential it issues exactly one HTTP call per
\* invocation, also when that call fails.
C24_SpeechOneCallNoRetry ==
    /\ ct.http_calls <= 1
    /\ (SpeechAnswered /\ ~Credential) =>
           /\ ct.http_calls = 0
           /\ ct.raised = "ValueError"
           /\ ct.status = 500
           /\ ct.error = NotConfigured
    /\ (SpeechAnswered /\ Credential) =>
           /\ ct.http_calls = 1
           /\ ct.error # NotConfigured
           /\ ct.status = (IF ct.raised = "none" THEN 200 ELSE 500)

\* With a credential, the provider answered 429: one HTTP call was issued
\* and the request was answered with the generic failure.
C24_Witness ==
    /\ SpeechAnswered
    /\ Credential
    /\ ct.upstream = 429
    /\ ct.http_calls = 1
    /\ ct.status = 500
    /\ ct.error = "HTTPError"

\* C25: every sleep of call_with_retry lasts at most max_delay seconds,
\* whether the delay comes from the exponential backoff or from the
\* retry-after hint of the provider.
C25_SleepAtMostMaxDelay ==
    \A k \in 1..Len(rc.sleeps) : rc.sleeps[k] <= rc.max_delay

\* One call slept after a hint whose s + 1 is above max_delay and after a
\* backoff that is above max_delay, max_delay each time.
C25_Witness ==
    \E j, k \in 1..Len(rc.sleeps) :
        /\ SleptWithHint(j)
        /\ script[j].hint.secs + 1 > rc.max_delay
        /\ rc.sleeps[j] = rc.max_delay
        /\ SleptWithoutHint(k)
        /\ rc.base_delay * 2^(k - 1) > rc.max_delay
        /\ rc.sleeps[k] = rc.max_delay

\* The model invocations made so far by a call_with_retry of get_subtopics
\* (its main prompt, its simplified retry) and by generate_questions number i.
MainInvocations == IF gs.pc = "main_call" THEN gs.rc.ncalls ELSE gs.main_calls
RetryInvocations == IF gs.pc = "retry_call" THEN gs.rc.ncalls ELSE gs.retry_calls
QInvocations(i) == IF gq[i].pc = "call" THEN gq[i].rc.ncalls ELSE gq[i].calls

InvocationsBounded ==
    /\ MainInvocations <= 4
    /\ RetryInvocations <= 3
    /\ MainInvocations + RetryInvocations <= 7
    /\ \A i \in DOMAIN gq : QInvocations(i) <= 4

\* C26: when every model call returns or raises and the workers are
\* scheduled fairly, create_study_tree eventually returns a tree, after at
\* most 7 model invocations for the subtopics (4 for the main prompt and 3
\* for the simplified retry) and at most 4 for the questions of a subtopic.
C26_TerminatesWithinBounds ==
    /\ <>(ct.pc = "returned")
    /\ [](InvocationsBounded)

\* The tree was returned after 4 invocations for the main prompt, 3 for the
\* simplified retry and 4 for the questions of a subtopic.
C26_Witness ==
    /\ ct.pc = "returned"
    /\ Len(ct.tree.subtopics) >= 1
    /\ MainInvocations = 4
    /\ RetryInvocations = 3
    /\ \E i \in DOMAIN gq : QInvocations(i) = 4

====
